---- MODULE Spec2Model ----
(***************************************************************************)
(* AsyncRQWorker (src/init_worker.py): a worker that pops JSON envelopes   *)
(* {task_id: payload} from Redis lists with BLPOP, hands them to a         *)
(* callback, and pushes new envelopes with LPUSH.                          *)
(*                                                                         *)
(* Strings are TLA+ strings.  Python values are tagged tuples whose leaves *)
(* are strings; JSON text is a sequence of tokens (lexing is abstracted,   *)
(* parsing and serialising are not).                                       *)
(***************************************************************************)
EXTENDS Integers, Sequences, FiniteSets, TLC

(***************************************************************************)
(* Bounds                                                                  *)
(***************************************************************************)
\* longest queue-name sequence handed to the constructor
MaxNames == 2
\* most pushes issued against the store (set_task_in_queue calls and
\* pushes of other producers together)
MaxPush == 2
\* most pushes of other producers among them
MaxForeign == 1

(***************************************************************************)
(* Python values                                                           *)
(***************************************************************************)
PyNone == <<"none">>
PyInt(n) == <<"int", n>>
PyStr(s) == <<"str", s>>
PyList(items) == <<"list", items>>
PyTuple(items) == <<"tuple", items>>
\* a dict is its insertion-ordered sequence of <<key, value>> pairs
PyDict(pairs) == <<"dict", pairs>>
\* a value json.dumps cannot serialise (a set, an arbitrary object)
PyObject == <<"object">>

IsDict(v) == v[1] = "dict"

\* d[k] = v on an insertion-ordered dict: an existing key keeps its place
RECURSIVE DictSet(_, _, _)
DictSet(pairs, k, v) ==
    IF pairs = <<>> THEN << <<k, v>> >>
    ELSE IF Head(pairs)[1] = k THEN << <<k, v>> >> \o Tail(pairs)
    ELSE << Head(pairs) >> \o DictSet(Tail(pairs), k, v)

\* d.pop(k) for a key that is present: the pairs left
RECURSIVE DictDel(_, _)
DictDel(pairs, k) ==
    IF pairs = <<>> THEN <<>>
    ELSE IF Head(pairs)[1] = k THEN Tail(pairs)
    ELSE << Head(pairs) >> \o DictDel(Tail(pairs), k)

\* d[k] for a key that is present
RECURSIVE DictGet(_, _)
DictGet(pairs, k) ==
    IF Head(pairs)[1] = k THEN Head(pairs)[2] ELSE DictGet(Tail(pairs), k)

(***************************************************************************)
(* JSON text: a sequence of tokens                                         *)
(***************************************************************************)
TLBrace == <<"{">>
TRBrace == <<"}">>
TLBracket == <<"[">>
TRBracket == <<"]">>
TColon == <<":">>
TComma == <<",">>
TNull == <<"null">>
TString(s) == <<"s", s>>
TNumber(n) == <<"n", n>>

\* json.dumps: TypeError is [ok |-> FALSE]
DumpsFail == [ok |-> FALSE, text |-> <<>>]

RECURSIVE Dumps(_), DumpsItems(_), DumpsPairs(_)
Dumps(v) ==
    CASE v[1] = "none" -> [ok |-> TRUE, text |-> <<TNull>>]
      [] v[1] = "int" -> [ok |-> TRUE, text |-> <<TNumber(v[2])>>]
      [] v[1] = "str" -> [ok |-> TRUE, text |-> <<TString(v[2])>>]
      [] v[1] \in {"list", "tuple"} ->
            LET r == DumpsItems(v[2])
            IN  IF r.ok
                THEN [ok |-> TRUE, text |-> <<TLBracket>> \o r.text \o <<TRBracket>>]
                ELSE DumpsFail
      [] v[1] = "dict" ->
            LET r == DumpsPairs(v[2])
            IN  IF r.ok
                THEN [ok |-> TRUE, text |-> <<TLBrace>> \o r.text \o <<TRBrace>>]
                ELSE DumpsFail
      [] OTHER -> DumpsFail

DumpsItems(items) ==
    IF items = <<>> THEN [ok |-> TRUE, text |-> <<>>]
    ELSE LET h == Dumps(Head(items))
             t == DumpsItems(Tail(items))
         IN  IF h.ok /\ t.ok
             THEN [ok |-> TRUE,
                   text |-> h.text \o (IF Tail(items) = <<>> THEN <<>> ELSE <<TComma>>) \o t.text]
             ELSE DumpsFail

\* a str key is written as it is, an int key as its decimal string; any
\* other key type is a TypeError
DumpsPairs(pairs) ==
    IF pairs = <<>> THEN [ok |-> TRUE, text |-> <<>>]
    ELSE LET k == Head(pairs)[1]
             h == Dumps(Head(pairs)[2])
             t == DumpsPairs(Tail(pairs))
         IN  IF k[1] \in {"str", "int"} /\ h.ok /\ t.ok
             THEN [ok |-> TRUE,
                   text |-> <<TString(k[2]), TColon>> \o h.text
                            \o (IF Tail(pairs) = <<>> THEN <<>> ELSE <<TComma>>) \o t.text]
             ELSE DumpsFail

\* json.loads: JSONDecodeError is [ok |-> FALSE]
ParseFail == [ok |-> FALSE, val |-> PyNone, rest |-> <<>>]

RECURSIVE ParseValue(_), ParseMembers(_, _), ParseElements(_, _)
ParseValue(ts) ==
    IF ts = <<>> THEN ParseFail
    ELSE LET h == Head(ts)
             r == Tail(ts)
         IN  CASE h = TNull -> [ok |-> TRUE, val |-> PyNone, rest |-> r]
               [] h[1] = "n" -> [ok |-> TRUE, val |-> PyInt(h[2]), rest |-> r]
               [] h[1] = "s" -> [ok |-> TRUE, val |-> PyStr(h[2]), rest |-> r]
               [] h = TLBrace ->
                     IF r # <<>> /\ Head(r) = TRBrace
                     THEN [ok |-> TRUE, val |-> PyDict(<<>>), rest |-> Tail(r)]
                     ELSE ParseMembers(r, <<>>)
               [] h = TLBracket ->
                     IF r # <<>> /\ Head(r) = TRBracket
                     THEN [ok |-> TRUE, val |-> PyList(<<>>), rest |-> Tail(r)]
                     ELSE ParseElements(r, <<>>)
               [] OTHER -> ParseFail

\* F applied to the value of x, which is worked out once however often F
\* uses it
Bind(x, F(_)) == CHOOSE r \in {F(v) : v \in {x}} : TRUE

\* "key": value { , "key": value } "}" ; a repeated key keeps the last value
ParseMembers(ts, acc) ==
    IF Len(ts) < 3 \/ Head(ts)[1] # "s" \/ ts[2] # TColon THEN ParseFail
    ELSE Bind(ParseValue(Tail(Tail(ts))), LAMBDA v :
            IF ~v.ok \/ v.rest = <<>> THEN ParseFail
            ELSE LET acc2 == DictSet(acc, PyStr(Head(ts)[2]), v.val)
                     sep == Head(v.rest)
                 IN  IF sep = TRBrace
                     THEN [ok |-> TRUE, val |-> PyDict(acc2), rest |-> Tail(v.rest)]
                     ELSE IF sep = TComma THEN ParseMembers(Tail(v.rest), acc2)
                     ELSE ParseFail)

ParseElements(ts, acc) ==
    Bind(ParseValue(ts), LAMBDA v :
        IF ~v.ok \/ v.rest = <<>> THEN ParseFail
        ELSE LET acc2 == Append(acc, v.val)
                 sep == Head(v.rest)
             IN  IF sep = TRBracket
                 THEN [ok |-> TRUE, val |-> PyList(acc2), rest |-> Tail(v.rest)]
                 ELSE IF sep = TComma THEN ParseElements(Tail(v.rest), acc2)
                 ELSE ParseFail)

Loads(text) ==
    Bind(ParseValue(text), LAMBDA r :
        IF r.ok /\ r.rest = <<>> THEN [ok |-> TRUE, val |-> r.val]
        ELSE [ok |-> FALSE, val |-> PyNone])

(***************************************************************************)
(* Truthiness, as "if x:" and "x or y" test it                             *)
(***************************************************************************)
Truthy(v) ==
    CASE v[1] = "none" -> FALSE
      [] v[1] = "str" -> v[2] # ""
      [] v[1] = "int" -> v[2] # "0"
      [] v[1] \in {"list", "tuple", "dict"} -> v[2] # <<>>
      [] OTHER -> TRUE

(***************************************************************************)
(* Inputs                                                                  *)
(***************************************************************************)
\* QueueStatus.PROCESSING.value
PROCESSING == ":processing"

\* elements of the queue_names argument: two names and a non-string
NameElems == {PyStr("orders"), PyStr("mail"), PyNone}
CtorArgs == UNION {[1..n -> NameElems] : n \in 0..MaxNames}

\* queue_name and task_id arguments of set_task_in_queue when a caller makes
\* up a task: it leaves the id to the worker (Requeue passes the ids the
\* callback was handed, the empty one among them)
QueueNameArgs == {PyNone, PyStr(""), PyStr("mail")}
TaskIdArgs == {PyNone}
\* outcomes of str(uuid.uuid4())[:10]
UuidSeq == <<"a1b2c3d4-e", "9f8e7d6c-5">>
UuidPool == {UuidSeq[i] : i \in 1..Len(UuidSeq)}
\* data arguments: a str-keyed dict, an int-keyed dict, an unserialisable one
PayloadX == PyDict(<< <<PyStr("x"), PyInt("1")>> >>)
PayloadIntKey == PyDict(<< <<PyInt("1"), PyStr("x")>> >>)
DataArgs == {PayloadX, PayloadIntKey, PyObject}

\* payloads other producers leave on the lists
TextTruncated == <<TLBrace>>
TextNumber == <<TNumber("1")>>
TextEmptyObject == <<TLBrace, TRBrace>>
TextEmptyId == <<TLBrace, TString(""), TColon, TNull, TRBrace>>
TextTwoKeys == <<TLBrace, TString("a"), TColon, TNull, TComma,
                 TString("b"), TColon, TNull, TRBrace>>
TextLiteralId == <<TLBrace, TString("task_id"), TColon, TNull, TRBrace>>
RawTexts ==
    {TextTruncated, TextNumber, TextEmptyObject, TextEmptyId, TextTwoKeys, TextLiteralId}

\* the keys of the store
StoreKeys == {"orders", "mail", "", "orders:processing", "mail:processing", ":processing"}

(***************************************************************************)
(* State                                                                   *)
(***************************************************************************)
VARIABLES
    pc,               \* where the worker is: "new", "ctor_error", "ready",
                      \* "waiting" (in blpop), "callback" (awaiting the
                      \* callback), "sleeping" (asyncio.sleep(1)), "stopped"
                      \* (run returned), "raised" (run raised)
    arg_queue_names,  \* the queue_names argument of the constructor
    queue_names,      \* self.queue_names
    function,         \* whether self.function is set
    task_id,          \* self.task_id
    store,            \* the Redis lists: key -> sequence of [text, src]
    pending,          \* lpush calls awaited by set_task_in_queue
    item,             \* <<key, [text, src]>> popped by the iteration that is in
                      \* the callback, or was when run was cancelled
    cbArgs,           \* <<task_id, cleaned_data>> that callback was called with
    exc,              \* the exception that left the constructor or run
    setExc,           \* the exception that left set_task_in_queue in the last
                      \* step ("" when none did)
    log,              \* the messages logged by the last step
    ops,              \* the store operations issued by the last step
    calls,            \* pushes issued so far (set_task_in_queue and producers)
    foreign,          \* pushes of other producers among them
    popIssued,        \* a blpop was issued
    fault,            \* the exception last raised inside the try block of run
                      \* ("" while the iteration has raised none)
    lastCall,         \* <<queue_name, task_id>> when the last step was a
                      \* call of set_task_in_queue, <<>> otherwise
    peer              \* a second instance running on the same queue names:
                      \* where its loop is ("waiting", "callback") and the
                      \* <<key, value>> its blpop returned

vars == <<pc, arg_queue_names, queue_names, function, task_id, store, pending,
          item, cbArgs, exc, setExc, log, ops, calls, foreign, popIssued, fault,
          lastCall, peer>>

Constructed == pc \notin {"new", "ctor_error"}

\* the task ids the worker and the store hold
IdsHeld ==
    {task_id}
        \cup {pending[i].src[1] : i \in 1..Len(pending)}
        \cup UNION {{store[k][i].src[1] :
                        i \in {j \in 1..Len(store[k]) : store[k][j].src # <<>>}} :
                    k \in StoreKeys}
        \cup (IF cbArgs = <<>> THEN {} ELSE {cbArgs[1]})

\* what uuid4 can return, up to a renaming of the ids nothing holds: an id
\* that is held (a collision) or the first one that is not
UuidDraws ==
    LET held == {u \in UuidPool : PyStr(u) \in IdsHeld}
        free == {i \in 1..Len(UuidSeq) : UuidSeq[i] \notin held}
    IN  held \cup {UuidSeq[i] : i \in {j \in free : \A k \in free : j <= k}}

(***************************************************************************)
(* __post_init__ / init_queues                                             *)
(***************************************************************************)
\* QueueValidator: queue_names must be a list of str
QueueValidator(names) == \A i \in 1..Len(names) : names[i][1] = "str"

\* a suffixing that drops a name it has already seen
RECURSIVE InitQueuesDedup(_)
InitQueuesDedup(names) ==
    IF names = <<>> THEN <<>>
    ELSE LET front == InitQueuesDedup(SubSeq(names, 1, Len(names) - 1))
             last == names[Len(names)][2] \o PROCESSING
         IN  IF \E i \in 1..Len(front) : front[i] = last THEN front
             ELSE Append(front, last)

InitQueues(names) == [i \in 1..Len(names) |-> names[i][2] \o PROCESSING]

Init ==
    /\ pc = "new"
    /\ arg_queue_names \in CtorArgs
    /\ function \in BOOLEAN
    /\ queue_names = <<>>
    /\ task_id = PyNone
    /\ store = [k \in StoreKeys |-> <<>>]
    /\ pending = <<>>
    /\ item = <<>>
    /\ cbArgs = <<>>
    /\ exc = ""
    /\ setExc = ""
    /\ log = <<>>
    /\ ops = <<>>
    /\ calls = 0
    /\ foreign = 0
    /\ popIssued = FALSE
    /\ fault = ""
    /\ lastCall = <<>>
    /\ peer = [pc |-> "off", item |-> <<>>]

Construct ==
    /\ pc = "new"
    /\ IF QueueValidator(arg_queue_names)
       THEN /\ queue_names' = InitQueues(arg_queue_names)
            /\ pc' = "ready"
            /\ exc' = ""
       ELSE /\ queue_names' = queue_names
            /\ pc' = "ctor_error"
            /\ exc' = "ValueError"
    /\ log' = <<>>
    /\ ops' = <<>>
    /\ lastCall' = <<>>
    /\ UNCHANGED fault
    /\ UNCHANGED <<arg_queue_names, function, task_id, store, pending, item, cbArgs,
                   setExc, calls, foreign, popIssued>>
    /\ UNCHANGED peer

(***************************************************************************)
(* set_task_in_queue                                                       *)
(***************************************************************************)
\* an id that is generated whatever was passed
NewTaskIdAlwaysGenerated(tid, uuid) == PyStr(uuid)

\* self.task_id: a generated id unless a truthy task_id was passed
NewTaskId(tid, uuid) == IF ~Truthy(tid) THEN PyStr(uuid) ELSE tid

\* a destination that is the name as the caller gave it
ResolveQueueUnsuffixed(qn, qs) ==
    IF Truthy(qn) THEN [ok |-> TRUE, key |-> qn[2]]
    ELSE IF qs = <<>> THEN [ok |-> FALSE, key |-> ""]
    ELSE [ok |-> TRUE, key |-> qs[1]]

\* queue_name += ":processing" if queue_name; queue_name or self.queue_names[0]
\* (IndexError, [ok |-> FALSE], on an empty self.queue_names)
ResolveQueue(qn, qs) ==
    LET named == IF Truthy(qn) THEN PyStr(qn[2] \o PROCESSING) ELSE qn
    IN  IF Truthy(named) THEN [ok |-> TRUE, key |-> named[2]]
        ELSE IF qs = <<>> THEN [ok |-> FALSE, key |-> ""]
        ELSE [ok |-> TRUE, key |-> qs[1]]

\* a template that keeps the literal key
TaskTemplateNoRename(id, data) == PyDict(<< <<PyStr("task_id"), data>> >>)

\* a template that sets the id first and pops the literal key afterwards
TaskTemplatePopAfter(id, data) ==
    LET t0 == << <<PyStr("task_id"), data>> >>
    IN  PyDict(DictDel(DictSet(t0, id, data), PyStr("task_id")))

\* task_template = dict(task_id=data)
\* task_template[self.task_id] = task_template.pop('task_id')
TaskTemplate(id, data) ==
    LET t0 == << <<PyStr("task_id"), data>> >>
        v == DictGet(t0, PyStr("task_id"))
    IN  PyDict(DictSet(DictDel(t0, PyStr("task_id")), id, v))

BlpopOp == [op |-> "blpop", keys |-> queue_names]
LpushOp(key) == [op |-> "lpush", keys |-> <<key>>]

\* the call up to its await of redis_client.lpush; orig is <<text>> when the
\* callback re-enqueues the envelope it was handed, <<>> otherwise
SetTaskInQueue(data, qn, tid, uuid, orig) ==
    /\ Constructed
    /\ calls < MaxPush
    /\ LET id == NewTaskId(tid, uuid)
           q == ResolveQueue(qn, queue_names)
           d == Dumps(TaskTemplate(id, data))
       IN  /\ task_id' = id
           /\ IF ~q.ok
              THEN /\ setExc' = "IndexError"
                   /\ log' = <<>>
                   /\ ops' = <<>>
                   /\ pending' = pending
              ELSE IF ~d.ok
              THEN /\ setExc' = "TypeError"
                   /\ log' = <<"TASK_SENT">>
                   /\ ops' = <<>>
                   /\ pending' = pending
              ELSE /\ setExc' = ""
                   /\ log' = <<"TASK_SENT">>
                   /\ ops' = <<LpushOp(q.key)>>
                   /\ pending' = Append(pending,
                          [key |-> q.key, text |-> d.text, src |-> <<id, data>>,
                           orig |-> orig])
    /\ calls' = calls + 1
    /\ lastCall' = <<qn, tid>>
    /\ UNCHANGED <<fault, foreign>>
    /\ UNCHANGED <<pc, arg_queue_names, queue_names, function, store, item, cbArgs,
                   exc, popIssued>>
    /\ UNCHANGED peer

\* a caller enqueues a task
SetTask ==
    \E data \in DataArgs, qn \in QueueNameArgs, tid \in TaskIdArgs, uuid \in UuidDraws :
        SetTaskInQueue(data, qn, tid, uuid, <<>>)

\* the callback puts the task it was handed back on a queue, under its id
Requeue ==
    /\ pc = "callback"
    /\ \E qn \in QueueNameArgs, uuid \in UuidDraws :
        SetTaskInQueue(cbArgs[2], qn, cbArgs[1], uuid, <<item[2].text>>)

DropAt(seq, i) == SubSeq(seq, 1, i - 1) \o SubSeq(seq, i + 1, Len(seq))

\* a push to the tail of the list (RPUSH)
Rpush(st, key, it) == [st EXCEPT ![key] = @ \o <<it>>]

\* LPUSH: the value becomes the head of the list
Lpush(st, key, it) == [st EXCEPT ![key] = <<it>> \o @]

\* a call that builds its envelope from self.task_id once the lpush is
\* under way
LpushDoneLateEncode ==
    \E i \in 1..Len(pending) :
        /\ store' = Lpush(store, pending[i].key,
                          [text |-> Dumps(TaskTemplate(task_id, pending[i].src[2])).text,
                           src |-> pending[i].src])
        /\ pending' = DropAt(pending, i)
        /\ setExc' = ""
        /\ log' = <<>>
        /\ ops' = <<>>
        /\ lastCall' = <<>>
        /\ UNCHANGED fault
        /\ UNCHANGED <<pc, arg_queue_names, queue_names, function, task_id, item,
                       cbArgs, exc, calls, foreign, popIssued>>
        /\ UNCHANGED peer

\* an awaited lpush completes
LpushDone ==
    \E i \in 1..Len(pending) :
        /\ store' = Lpush(store, pending[i].key,
                          [text |-> pending[i].text, src |-> pending[i].src])
        /\ pending' = DropAt(pending, i)
        /\ setExc' = ""
        /\ log' = <<>>
        /\ ops' = <<>>
        /\ lastCall' = <<>>
        /\ UNCHANGED fault
        /\ UNCHANGED <<pc, arg_queue_names, queue_names, function, task_id, item,
                       cbArgs, exc, calls, foreign, popIssued>>
        /\ UNCHANGED peer

\* a call that catches the error of its lpush and returns
LpushErrorSwallowed ==
    \E i \in 1..Len(pending) :
        /\ pending' = DropAt(pending, i)
        /\ setExc' = ""
        /\ log' = <<>>
        /\ ops' = <<>>
        /\ lastCall' = <<>>
        /\ UNCHANGED fault
        /\ UNCHANGED <<pc, arg_queue_names, queue_names, function, task_id, store,
                       item, cbArgs, exc, calls, foreign, popIssued>>
        /\ UNCHANGED peer

\* an awaited lpush raises: the error leaves set_task_in_queue
LpushError ==
    \E i \in 1..Len(pending) :
        /\ pending' = DropAt(pending, i)
        /\ setExc' = "StoreError"
        /\ log' = <<>>
        /\ ops' = <<>>
        /\ lastCall' = <<>>
        /\ UNCHANGED fault
        /\ UNCHANGED <<pc, arg_queue_names, queue_names, function, task_id, store,
                       item, cbArgs, exc, calls, foreign, popIssued>>
        /\ UNCHANGED peer

\* another producer pushes a payload of its own to a queue of the worker
ProducerPush ==
    /\ calls < MaxPush
    /\ foreign < MaxForeign
    /\ \E text \in RawTexts, i \in 1..Len(queue_names) :
        store' = Lpush(store, queue_names[i], [text |-> text, src |-> <<>>])
    /\ calls' = calls + 1
    /\ foreign' = foreign + 1
    /\ log' = <<>>
    /\ ops' = <<>>
    /\ lastCall' = <<>>
    /\ UNCHANGED fault
    /\ UNCHANGED <<pc, arg_queue_names, queue_names, function, task_id, pending,
                   item, cbArgs, exc, popIssued>>
    /\ setExc' = ""
    /\ UNCHANGED peer

(***************************************************************************)
(* run                                                                     *)
(***************************************************************************)
\* the body of "if item:" up to the await of the callback: json.loads, then
\* the first key and the first value of the decoded dict
DecodeItem(text) ==
    Bind(Loads(text), LAMBDA l :
        IF ~l.ok
        THEN [ok |-> FALSE, err |-> "ValueError", log |-> <<>>, args |-> <<>>]
        ELSE IF ~IsDict(l.val)
        THEN [ok |-> FALSE, err |-> "AttributeError", log |-> <<"DATA_RECEIVED">>,
              args |-> <<>>]
        ELSE IF l.val[2] = <<>>
        THEN [ok |-> FALSE, err |-> "IndexError", log |-> <<"DATA_RECEIVED">>,
              args |-> <<>>]
        ELSE [ok |-> TRUE, err |-> "", log |-> <<"DATA_RECEIVED">>,
              args |-> <<l.val[2][1][1], l.val[2][1][2]>>])

\* BLPOP key [key ...]: the first key, in the order given, whose list is not
\* empty; 0 when all are empty
RECURSIVE FirstNonEmpty(_, _, _)
FirstNonEmpty(st, keys, i) ==
    IF i > Len(keys) THEN 0
    ELSE IF st[keys[i]] # <<>> THEN i
    ELSE FirstNonEmpty(st, keys, i + 1)

\* a handler that catches the decode error only
IsExceptionValueErrorOnly(err) == err = "ValueError"

\* a handler for the errors of processing an item, not for those of the pop
IsExceptionNoStoreError(err) ==
    err \in {"ValueError", "AttributeError", "IndexError", "CallbackError"}

\* the exceptions the try block can raise that "except Exception" catches:
\* the decode errors, an Exception of the callback, an error of the store
IsException(err) ==
    err \in {"ValueError", "AttributeError", "IndexError", "CallbackError", "StoreError"}

\* the loop calls get_task_from_queue: a blpop on self.queue_names
IssuePop ==
    /\ pc' = "waiting"
    /\ ops' = <<BlpopOp>>
    /\ popIssued' = TRUE
    /\ fault' = ""
    /\ lastCall' = <<>>
    /\ UNCHANGED exc

\* except clauses in which the general handler comes first and takes the
\* cancellation as well
ExceptGeneralFirst(err, logged) ==
    /\ fault' = err
    /\ lastCall' = <<>>
    /\ ops' = <<>>
    /\ pc' = "sleeping"
    /\ log' = logged \o <<"PROCESSING_ERROR">>
    /\ UNCHANGED <<popIssued, exc>>

\* except clauses whose general handler ends the loop after logging
ExceptBreakOnError(err, logged) ==
    /\ fault' = err
    /\ lastCall' = <<>>
    /\ ops' = <<>>
    /\ pc' = "stopped"
    /\ log' = logged \o (IF err = "CancelledError" THEN <<"WORKER_STOPPED">>
                          ELSE <<"PROCESSING_ERROR">>)
    /\ UNCHANGED <<popIssued, exc>>

\* a general handler that logs and goes straight to the next blpop
ExceptNoSleep(err, logged) ==
    /\ fault' = err
    /\ lastCall' = <<>>
    /\ UNCHANGED popIssued
    /\ IF err = "CancelledError"
       THEN /\ pc' = "stopped"
            /\ ops' = <<>>
            /\ log' = logged \o <<"WORKER_STOPPED">>
            /\ UNCHANGED exc
       ELSE IF IsException(err)
       THEN /\ pc' = "waiting"
            /\ ops' = <<BlpopOp>>
            /\ log' = logged \o <<"PROCESSING_ERROR">>
            /\ UNCHANGED exc
       ELSE /\ pc' = "raised"
            /\ ops' = <<>>
            /\ exc' = err
            /\ log' = logged

\* a loop without the clause for CancelledError, which is no Exception
ExceptNoCancelClause(err, logged) ==
    /\ fault' = err
    /\ lastCall' = <<>>
    /\ ops' = <<>>
    /\ UNCHANGED popIssued
    /\ IF IsException(err)
       THEN /\ pc' = "sleeping"
            /\ log' = logged \o <<"PROCESSING_ERROR">>
            /\ UNCHANGED exc
       ELSE /\ pc' = "raised"
            /\ exc' = err
            /\ log' = logged

\* the except clauses of the loop: CancelledError logs the stop and breaks,
\* so that run returns; an Exception is logged and followed by
\* asyncio.sleep(1); anything else leaves run
Except(err, logged) ==
    /\ fault' = err
    /\ lastCall' = <<>>
    /\ ops' = <<>>
    /\ UNCHANGED popIssued
    /\ IF err = "CancelledError"
       THEN /\ pc' = "stopped"
            /\ log' = logged \o <<"WORKER_STOPPED">>
            /\ UNCHANGED exc
       ELSE IF IsException(err)
       THEN /\ pc' = "sleeping"
            /\ log' = logged \o <<"PROCESSING_ERROR">>
            /\ UNCHANGED exc
       ELSE /\ pc' = "raised"
            /\ exc' = err
            /\ log' = logged

\* a run that enters the loop before it looks at the callback
RunWithoutCheck ==
    /\ pc = "ready"
    /\ IssuePop
    /\ log' = <<"WORKER_STARTED">>
    /\ UNCHANGED <<arg_queue_names, queue_names, function, task_id, store, pending,
                   item, cbArgs, calls, foreign>>
    /\ setExc' = ""
    /\ UNCHANGED peer

\* run is called: the callback check, then the first blpop
Run ==
    /\ pc = "ready"
    /\ IF ~function
       THEN /\ pc' = "raised"
            /\ exc' = "RuntimeError"
            /\ log' = <<"WORKER_STARTED", "NO_FUNCTION">>
            /\ ops' = <<>>
            /\ lastCall' = <<>>
            /\ UNCHANGED <<popIssued, fault>>
       ELSE /\ IssuePop
            /\ log' = <<"WORKER_STARTED">>
    /\ UNCHANGED <<arg_queue_names, queue_names, function, task_id, store, pending,
                   item, cbArgs, calls, foreign>>
    /\ setExc' = ""
    /\ UNCHANGED peer

\* the blpop returns (key, value): decode, then call the callback or catch
BlpopReturn ==
    /\ pc = "waiting"
    /\ FirstNonEmpty(store, queue_names, 1) # 0
    /\ \E k \in {queue_names[FirstNonEmpty(store, queue_names, 1)]} :
       \E it \in {Head(store[k])} :
       \E d \in {DecodeItem(it.text)} :
           /\ store' = [store EXCEPT ![k] = Tail(@)]
           /\ IF d.ok
              THEN /\ pc' = "callback"
                   /\ item' = <<k, it>>
                   /\ cbArgs' = d.args
                   /\ log' = <<"TASK_RECEIVED">> \o d.log
                   /\ ops' = <<>>
                   /\ lastCall' = <<>>
                   /\ UNCHANGED <<exc, popIssued, fault>>
              ELSE /\ Except(d.err, <<"TASK_RECEIVED">> \o d.log)
                   /\ item' = <<>>
                   /\ cbArgs' = <<>>
    /\ UNCHANGED <<arg_queue_names, queue_names, function, task_id, pending,
                   calls, foreign>>
    /\ setExc' = ""
    /\ UNCHANGED peer

\* a loop without "if item:": unpacking the falsy value raises TypeError,
\* which the general handler catches
BlpopNoneUnpacked ==
    /\ pc = "waiting"
    /\ pc' = "sleeping"
    /\ fault' = "TypeError"
    /\ log' = <<"TASK_RECEIVED", "PROCESSING_ERROR">>
    /\ ops' = <<>>
    /\ lastCall' = <<>>
    /\ UNCHANGED <<exc, popIssued>>
    /\ UNCHANGED <<arg_queue_names, queue_names, function, task_id, store, pending,
                   item, cbArgs, calls, foreign>>
    /\ setExc' = ""
    /\ UNCHANGED peer

\* the blpop returns a falsy value: straight to the next blpop
BlpopNone ==
    /\ pc = "waiting"
    /\ IssuePop
    /\ log' = <<"TASK_RECEIVED">>
    /\ UNCHANGED <<arg_queue_names, queue_names, function, task_id, store, pending,
                   item, cbArgs, calls, foreign>>
    /\ setExc' = ""
    /\ UNCHANGED peer

\* the blpop raises (the store is down, or was given no key)
BlpopError ==
    /\ pc = "waiting"
    /\ Except("StoreError", <<>>)
    /\ UNCHANGED <<arg_queue_names, queue_names, function, task_id, store, pending,
                   item, cbArgs, calls, foreign>>
    /\ setExc' = ""
    /\ UNCHANGED peer

\* run is cancelled while it waits in the blpop
CancelWaiting ==
    /\ pc = "waiting"
    /\ Except("CancelledError", <<>>)
    /\ UNCHANGED <<arg_queue_names, queue_names, function, task_id, store, pending,
                   item, cbArgs, calls, foreign>>
    /\ setExc' = ""
    /\ UNCHANGED peer

\* the callback returns: the next iteration
CallbackReturn ==
    /\ pc = "callback"
    /\ IssuePop
    /\ item' = <<>>
    /\ cbArgs' = <<>>
    /\ log' = <<>>
    /\ UNCHANGED <<arg_queue_names, queue_names, function, task_id, store, pending,
                   calls, foreign>>
    /\ setExc' = ""
    /\ UNCHANGED peer

\* a loop that puts the item back on its list when the callback raises
CallbackRaiseRequeue ==
    /\ pc = "callback"
    /\ Except("CallbackError", <<>>)
    /\ item' = <<>>
    /\ cbArgs' = <<>>
    /\ store' = Lpush(store, item[1], item[2])
    /\ UNCHANGED <<arg_queue_names, queue_names, function, task_id, pending,
                   calls, foreign>>
    /\ setExc' = ""
    /\ UNCHANGED peer

\* the callback raises an Exception
CallbackRaise ==
    /\ pc = "callback"
    /\ Except("CallbackError", <<>>)
    /\ item' = <<>>
    /\ cbArgs' = <<>>
    /\ UNCHANGED <<arg_queue_names, queue_names, function, task_id, store, pending,
                   calls, foreign>>
    /\ setExc' = ""
    /\ UNCHANGED peer

\* CancelledError at the await of the callback
CallbackCancelled ==
    /\ pc = "callback"
    /\ Except("CancelledError", <<>>)
    /\ UNCHANGED <<arg_queue_names, queue_names, function, task_id, store, pending,
                   item, cbArgs, calls, foreign>>
    /\ setExc' = ""
    /\ UNCHANGED peer

\* asyncio.sleep(1) is over: the next iteration
SleepDone ==
    /\ pc = "sleeping"
    /\ IssuePop
    /\ log' = <<>>
    /\ UNCHANGED <<arg_queue_names, queue_names, function, task_id, store, pending,
                   item, cbArgs, calls, foreign>>
    /\ setExc' = ""
    /\ UNCHANGED peer

\* run is cancelled during asyncio.sleep(1), which is inside the except
\* clause and outside the try: CancelledError leaves run
CancelSleeping ==
    /\ pc = "sleeping"
    /\ pc' = "raised"
    /\ exc' = "CancelledError"
    /\ log' = <<>>
    /\ ops' = <<>>
    /\ lastCall' = <<>>
    /\ UNCHANGED <<arg_queue_names, queue_names, function, task_id, store, pending,
                   item, cbArgs, calls, foreign, popIssued, fault>>
    /\ setExc' = ""
    /\ UNCHANGED peer

Next ==
    \/ Construct
    \/ SetTask
    \/ Requeue
    \/ LpushDone
    \/ LpushError
    \/ ProducerPush
    \/ Run
    \/ BlpopReturn
    \/ BlpopNone
    \/ BlpopError
    \/ CancelWaiting
    \/ CallbackReturn
    \/ CallbackRaise
    \/ CallbackCancelled
    \/ SleepDone
    \/ CancelSleeping

Spec == Init /\ [][Next]_vars

\* a worker with a callback and two different queues
FairInit ==
    /\ Init
    /\ function
    /\ arg_queue_names \in {<<PyStr("orders"), PyStr("mail")>>,
                             <<PyStr("mail"), PyStr("orders")>>}

(***************************************************************************)
(* a second instance on the same queue names                               *)
(***************************************************************************)
\* what a step of the second instance leaves of this one
PeerStep ==
    /\ log' = <<>>
    /\ ops' = <<>>
    /\ lastCall' = <<>>
    /\ setExc' = ""
    /\ UNCHANGED <<pc, arg_queue_names, queue_names, function, task_id, pending,
                   item, cbArgs, exc, calls, foreign, popIssued, fault>>

\* run of the second instance enters its loop: its first blpop
PeerRun ==
    /\ Constructed
    /\ peer.pc = "off"
    /\ peer' = [pc |-> "waiting", item |-> <<>>]
    /\ UNCHANGED store
    /\ PeerStep

\* a pop that hands out the head of the list and leaves it there
PeerBlpopPeek ==
    /\ peer.pc = "waiting"
    /\ FirstNonEmpty(store, queue_names, 1) # 0
    /\ \E k \in {queue_names[FirstNonEmpty(store, queue_names, 1)]} :
           peer' = [pc |-> "callback", item |-> <<k, Head(store[k])>>]
    /\ UNCHANGED store
    /\ PeerStep

\* the blpop of the second instance returns (key, value): the store takes
\* the value off the list as it hands it out
PeerBlpopReturn ==
    /\ peer.pc = "waiting"
    /\ FirstNonEmpty(store, queue_names, 1) # 0
    /\ \E k \in {queue_names[FirstNonEmpty(store, queue_names, 1)]} :
           /\ peer' = [pc |-> "callback", item |-> <<k, Head(store[k])>>]
           /\ store' = [store EXCEPT ![k] = Tail(@)]
    /\ PeerStep

\* the second instance is through with the value (its callback returned, or
\* the error was caught and slept on): its next blpop
PeerIterationDone ==
    /\ peer.pc = "callback"
    /\ peer' = [pc |-> "waiting", item |-> <<>>]
    /\ UNCHANGED store
    /\ PeerStep

PeerNext ==
    \/ Next
    \/ PeerRun
    \/ PeerBlpopReturn
    \/ PeerIterationDone

\* two instances with a callback on two different queues
PeerSpec == FairInit /\ [][PeerNext]_vars

\* the event loop resumes run when the sleep is over and when the callback
\* has returned, and a blpop on a list that holds a value is answered with it
\* sooner or later, however often the store fails in between
FairSpec ==
    /\ FairInit
    /\ [][Next]_vars
    /\ WF_vars(SleepDone)
    /\ WF_vars(CallbackReturn)
    /\ SF_vars(BlpopReturn)

TypeOK ==
    /\ pc \in {"new", "ctor_error", "ready", "waiting", "callback", "sleeping",
               "stopped", "raised"}
    /\ exc \in {"", "ValueError", "RuntimeError", "CancelledError"}
    /\ calls \in 0..MaxPush
    /\ foreign \in 0..MaxForeign
    /\ Len(pending) <= MaxPush

(***************************************************************************)
(* Properties                                                              *)
(***************************************************************************)
Last(seq) == seq[Len(seq)]

\* the text is a JSON object with exactly one key
SingleKey(text) ==
    /\ Loads(text).ok
    /\ IsDict(Loads(text).val)
    /\ Len(Loads(text).val[2]) = 1

\* the only key of a single-key JSON object, as a Python str
OnlyKey(text) == Loads(text).val[2][1][1]

\* the failures of processing one dequeued item
ItemFaults == {"ValueError", "AttributeError", "IndexError", "CallbackError"}

\* C1: a failure raised while one dequeued item is processed (its JSON does
\* not parse, the decoded value is not an object or has no key, the callback
\* raises) is caught in the loop and logged as a processing error; no
\* exception leaves run, and from the delay that follows the loop goes back
\* to the blpop (only a cancellation during the delay ends run).
C1_ItemFailureContained ==
    [][ /\ (pc \in {"waiting", "callback"} /\ fault' \in ItemFaults)
            => /\ pc' = "sleeping"
               /\ Last(log') = "PROCESSING_ERROR"
               /\ exc' = ""
        /\ (pc = "sleeping" /\ pc' # "sleeping")
            => \/ pc' = "waiting" /\ ops' = <<BlpopOp>>
               \/ pc' = "raised" /\ exc' = "CancelledError"
      ]_vars

C1_Witness == pc = "sleeping" /\ fault = "AttributeError" /\ exc = ""

\* well-formed envelopes: one of another producer, one of set_task_in_queue
EnvelopeX == Dumps(TaskTemplate(PyStr("a1b2c3d4-e"), PayloadX)).text
GoodTexts == {TextLiteralId, EnvelopeX}

\* the text waits on one of the lists the worker pops from
Queued(t) ==
    \E i \in 1..Len(queue_names) :
        \E j \in 1..Len(store[queue_names[i]]) : store[queue_names[i]][j].text = t

\* the callback has been called with the id and the payload of the text
Dispatched(t) ==
    /\ pc = "callback"
    /\ item[2].text = t
    /\ cbArgs = <<OnlyKey(t), Loads(t).val[2][1][2]>>

\* run was ended by a cancellation
RunCancelled ==
    \/ pc = "stopped" /\ fault = "CancelledError"
    \/ pc = "raised" /\ exc = "CancelledError"

\* the loop is running: in the blpop, in the callback or in the sleep that
\* follows a caught error
InLoop == pc \in {"waiting", "callback", "sleeping"}

\* C2: wherever the loop is, and so once it has caught an error (the
\* callback raised or the decode failed) and sleeps, a well-formed envelope
\* that is on a queue of the worker is eventually handed to the callback, id
\* and payload, unless run is cancelled.
C2_RecoveryNotSticky ==
    \A t \in GoodTexts : (InLoop /\ Queued(t)) ~> (Dispatched(t) \/ RunCancelled)

\* an error has just been caught while a well-formed envelope waits
C2_Witness ==
    /\ pc = "sleeping"
    /\ fault \in ItemFaults
    /\ Queued(EnvelopeX)

\* C3: a worker built from an empty queue-name sequence does not exist:
\* the constructor raises, so run and the blpop are never reached for it.
C3_EmptyQueueSetRejected ==
    (arg_queue_names = <<>> /\ pc # "new")
        => (pc = "ctor_error" /\ exc = "ValueError" /\ ~popIssued)

\* C4: a cancellation delivered while run waits in the blpop is logged as
\* the stop of the worker and run returns: no exception, no delay, and once
\* stopped, no further blpop.
C4_CancelWhileWaitingStops ==
    [][ /\ (pc = "waiting" /\ fault' = "CancelledError")
            => /\ pc' = "stopped"
               /\ log' = <<"WORKER_STOPPED">>
               /\ exc' = ""
               /\ ops' = <<>>
        /\ pc = "stopped"
            => /\ pc' = "stopped"
               /\ exc' = ""
               /\ \A i \in 1..Len(ops') : ops'[i].op # "blpop"
               /\ \A i \in 1..Len(log') : log'[i] # "PROCESSING_ERROR"
      ]_vars

\* no callback was interrupted: the cancellation came during the blpop
C4_Witness == pc = "stopped" /\ fault = "CancelledError" /\ item = <<>> /\ popIssued

\* C5: run on a worker without a callback raises RuntimeError before the
\* loop: that worker never issues a blpop, and the step that raises issues
\* no store operation.
C5_NoCallbackNoPop ==
    (Constructed /\ ~function)
        => /\ ~popIssued
           /\ pc \in {"ready", "raised"}
           /\ pc = "raised" => exc = "RuntimeError"
           /\ \A i \in 1..Len(ops) : ops[i].op # "blpop"

C5_Witness == pc = "raised" /\ exc = "RuntimeError" /\ ~function /\ ~popIssued

\* C9: for a non-empty sequence of queue names, construction sets the
\* worker's queue names to the same sequence with ":processing" appended to
\* each entry: same length, same order.
C9_SuffixEveryName ==
    (Constructed /\ arg_queue_names # <<>>)
        => /\ Len(queue_names) = Len(arg_queue_names)
           /\ \A i \in 1..Len(arg_queue_names) :
                queue_names[i] = arg_queue_names[i][2] \o ":processing"

C9_Witness ==
    /\ pc = "ready"
    /\ Len(arg_queue_names) = 2
    /\ queue_names = <<"mail:processing", "orders:processing">>

\* the value a payload comes back as after json.dumps and json.loads
\* equals the payload: str-keyed dicts, lists, strings, ints and None only
RECURSIVE JsonNative(_)
JsonNative(v) ==
    CASE v[1] \in {"none", "int", "str"} -> TRUE
      [] v[1] = "list" -> \A i \in 1..Len(v[2]) : JsonNative(v[2][i])
      [] v[1] = "dict" ->
            \A i \in 1..Len(v[2]) : v[2][i][1][1] = "str" /\ JsonNative(v[2][i][2])
      [] OTHER -> FALSE

\* every envelope set_task_in_queue has handed to lpush is a single-key
\* object whose key is the task id of that call
EnvelopesSingleKey ==
    \A i \in 1..Len(pending) :
        SingleKey(pending[i].text) /\ OnlyKey(pending[i].text) = pending[i].src[1]

\* the callback is running on an envelope that set_task_in_queue pushed
OwnEnvelopeDispatched == pc = "callback" /\ item[2].src # <<>>

\* C6 as stated: the envelope pushed is a single-key object {task_id:
\* payload}, and the callback gets exactly that task id and a payload equal
\* to the one enqueued, whatever the payload.
C6_EndToEndAnyPayload ==
    /\ EnvelopesSingleKey
    /\ OwnEnvelopeDispatched => cbArgs = item[2].src

\* C6: the envelope pushed is a single-key object {task_id: payload}; the
\* callback gets exactly that task id, and a payload equal to the one
\* enqueued when the payload is made of str-keyed dicts, lists, strings,
\* numbers and None (a dict key that is not a string comes back as a string).
C6_EndToEndJsonPayload ==
    /\ EnvelopesSingleKey
    /\ OwnEnvelopeDispatched
        => /\ cbArgs[1] = item[2].src[1]
           /\ JsonNative(item[2].src[2]) => cbArgs[2] = item[2].src[2]
           /\ item[2].src[2] = PayloadIntKey
                => cbArgs[2] = PyDict(<< <<PyStr("1"), PyStr("x")>> >>)

C6_Witness ==
    /\ OwnEnvelopeDispatched
    /\ item[1] = "mail:processing"
    /\ cbArgs = <<PyStr("a1b2c3d4-e"), PayloadX>>

\* the pushes that re-encode a single-key envelope under its decoded id
IsReencoded(p) == p.orig # <<>> /\ SingleKey(p.orig[1])

\* C7 as stated: for every single-key envelope, the empty id included,
\* decoding and re-encoding with the same id and payload pushes an
\* equivalent envelope.
C7_RoundTripAnyId ==
    \A i \in 1..Len(pending) :
        IsReencoded(pending[i])
            => Loads(pending[i].text) = Loads(pending[i].orig[1])

\* C7: for every single-key envelope whose id is not the empty string (the
\* literal id "task_id" included), decoding and re-encoding with the same id
\* and payload pushes an equivalent envelope.
C7_RoundTripNonEmptyId ==
    \A i \in 1..Len(pending) :
        (IsReencoded(pending[i]) /\ OnlyKey(pending[i].orig[1]) # PyStr(""))
            => Loads(pending[i].text) = Loads(pending[i].orig[1])

C7_Witness ==
    \E i \in 1..Len(pending) :
        /\ IsReencoded(pending[i])
        /\ OnlyKey(pending[i].orig[1]) = PyStr("task_id")
        /\ pending[i].text = pending[i].orig[1]

\* the key of the envelope the last call handed to lpush, when it did
PushedId(id) == ops' # <<>> => OnlyKey(Last(pending').text) = id

\* C8 as stated: without an explicit task id each call puts a non-empty
\* identifier in the envelope that differs from those of earlier calls (here
\* from the one of the call before, which self.task_id still holds); with an
\* explicit task id it puts exactly that one.
C8_FreshOrExplicit ==
    [][ lastCall' # <<>>
            => IF lastCall'[2] = PyNone
               THEN /\ task_id' # task_id
                    /\ task_id'[2] # ""
                    /\ PushedId(task_id')
               ELSE /\ task_id' = lastCall'[2]
                    /\ PushedId(lastCall'[2])
      ]_vars

\* C8: without a task id, or with an empty one, each call puts a generated,
\* non-empty identifier of 10 characters in the envelope (nothing makes it
\* differ from earlier ones); with a non-empty task id it puts exactly that
\* one.
C8_GeneratedOrExplicit ==
    [][ lastCall' # <<>>
            => IF lastCall'[2] \in {PyNone, PyStr("")}
               THEN /\ task_id'[1] = "str"
                    /\ Len(task_id'[2]) = 10
                    /\ PushedId(task_id')
               ELSE /\ task_id' = lastCall'[2]
                    /\ PushedId(lastCall'[2])
      ]_vars

C8_Witness ==
    /\ lastCall # <<>>
    /\ lastCall[2] = PyStr("task_id")
    /\ ops # <<>>
    /\ OnlyKey(Last(pending).text) = PyStr("task_id")
    /\ task_id = PyStr("task_id")

\* the names a store key is derived from
KnownNames == {"orders", "mail", ""}
IsSuffixed(key) == \E n \in KnownNames : key = n \o ":processing"

\* every key handed to the store is a suffixed name, and the blpop is given
\* the suffixed queue names of the constructor
OpsUseSuffixedKeys ==
    \A i \in 1..Len(ops) :
        /\ \A j \in 1..Len(ops[i].keys) : IsSuffixed(ops[i].keys[j])
        /\ ops[i].op = "blpop"
            => /\ Len(ops[i].keys) = Len(arg_queue_names)
               /\ \A j \in 1..Len(arg_queue_names) :
                    ops[i].keys[j] = arg_queue_names[j][2] \o ":processing"

\* C10 as stated: every key of a store operation is a suffixed name; the
\* blpop uses the suffixed Queue Set; a push goes to the suffixed form of
\* the name the caller supplied, or to the first queue when none is supplied.
C10_KeysSuffixed ==
    /\ OpsUseSuffixedKeys
    /\ \A i \in 1..Len(ops) :
        ops[i].op = "lpush"
            => IF lastCall[1] = PyNone
               THEN ops[i].keys = <<queue_names[1]>>
               ELSE ops[i].keys = <<lastCall[1][2] \o ":processing">>

\* C10: every key of a store operation is a suffixed name; the blpop uses
\* the suffixed Queue Set; a push goes to the suffixed form of the non-empty
\* name the caller supplied, or to the first queue when no name or an empty
\* name is supplied.
C10_KeysSuffixedEmptyAsNone ==
    /\ OpsUseSuffixedKeys
    /\ \A i \in 1..Len(ops) :
        ops[i].op = "lpush"
            => IF lastCall[1] \in {PyNone, PyStr("")}
               THEN ops[i].keys = <<queue_names[1]>>
               ELSE ops[i].keys = <<lastCall[1][2] \o ":processing">>

C10_Witness ==
    /\ Len(ops) = 1
    /\ ops[1].op = "lpush"
    /\ lastCall[1] = PyStr("mail")
    /\ ops[1].keys = <<"mail:processing">>
    /\ queue_names = <<"orders:processing">>

\* the number of values on the lists of the store
RECURSIVE SumLen(_, _)
SumLen(st, ks) ==
    IF ks = {} THEN 0
    ELSE LET k == CHOOSE x \in ks : TRUE
         IN  Len(st[k]) + SumLen(st, ks \ {k})

StoreSize(st) == SumLen(st, StoreKeys)

\* an awaited lpush ends without its value reaching the store
PushFailed == Len(pending') < Len(pending) /\ store' = store

\* C11: when the lpush awaited by set_task_in_queue fails, the error reaches
\* the caller and that is all: the one call is over, nothing is pushed again
\* and the store is as it was; an lpush is issued only by the step of a call,
\* one per call.
C11_PushErrorPropagates ==
    [][ /\ PushFailed
            => /\ setExc' = "StoreError"
               /\ Len(pending') = Len(pending) - 1
               /\ ops' = <<>>
               /\ calls' = calls
               /\ pc' = pc
        /\ (\E i \in 1..Len(ops') : ops'[i].op = "lpush")
            => /\ lastCall' # <<>>
               /\ Len(ops') = 1
               /\ Len(pending') = Len(pending) + 1
               /\ calls' = calls + 1
      ]_vars

C11_Witness == setExc = "StoreError" /\ pending = <<>> /\ StoreSize(store) = 0 /\ calls = 1

\* the text decodes to an object with a first key
Decodable(t) == Loads(t).ok /\ IsDict(Loads(t).val) /\ Loads(t).val[2] # <<>>

\* the blpop of this instance takes a value off a list
Dequeued == StoreSize(store') < StoreSize(store) /\ peer' = peer

\* C12: each dequeue takes one value off one list and is followed by one
\* call of the callback when the value decodes and by none when it does
\* not; the callback is called on a dequeue only, and one call lasts until
\* the loop leaves it; no step of the loop puts anything on a list, so a
\* value whose decode or callback failed is gone.
C12_OnceAndNeverRequeued ==
    [][ /\ Dequeued
            => /\ pc = "waiting"
               /\ pending' = pending
               /\ \E k \in StoreKeys :
                    /\ store[k] # <<>>
                    /\ store' = [store EXCEPT ![k] = Tail(@)]
                    /\ IF Decodable(Head(store[k]).text)
                       THEN /\ pc' = "callback"
                            /\ item' = <<k, Head(store[k])>>
                            /\ cbArgs' = <<Loads(Head(store[k]).text).val[2][1][1],
                                           Loads(Head(store[k]).text).val[2][1][2]>>
                       ELSE /\ pc' = "sleeping"
                            /\ item' = <<>>
                            /\ cbArgs' = <<>>
        /\ (pc' = "callback" /\ pc # "callback") => Dequeued
        /\ (pc' = "callback" /\ pc = "callback") => (item' = item /\ cbArgs' = cbArgs)
        /\ pc' # pc
            => /\ StoreSize(store') <= StoreSize(store)
               /\ pending' = pending
               /\ \A i \in 1..Len(ops') : ops'[i].op # "lpush"
      ]_vars

\* the callback failed and its item is on no list and in no push
C12_Witness ==
    /\ pc = "sleeping"
    /\ fault = "CallbackError"
    /\ StoreSize(store) = 0
    /\ pending = <<>>

\* C13: once run is in its loop it ends in one way only, whatever point a
\* cancellation reaches it at, the sleep that follows an error included:
\* the stop is logged and run returns, no exception leaves it.
C13_OnlyCancellationPathEnds ==
    [][ (InLoop /\ ~InLoop')
            => /\ pc' = "stopped"
               /\ fault' = "CancelledError"
               /\ Last(log') = "WORKER_STOPPED"
               /\ exc' = ""
      ]_vars

\* C14: a CancelledError at the await of the callback (run is cancelled
\* there, or the callback ends with one) does not reach the general handler:
\* no processing error is logged, there is no sleep and no further pop; the
\* stop is logged, the loop is left and run returns, for good.
C14_CancelAtCallbackStops ==
    [][ /\ (pc = "callback" /\ fault' = "CancelledError")
            => /\ pc' = "stopped"
               /\ log' = <<"WORKER_STOPPED">>
               /\ ops' = <<>>
               /\ exc' = ""
               /\ store' = store
        /\ (pc = "stopped" /\ item # <<>>)
            => /\ pc' = "stopped"
               /\ exc' = ""
               /\ item' = item
               /\ \A i \in 1..Len(ops') : ops'[i].op # "blpop"
      ]_vars

\* run has returned from a cancellation that came while the callback had
\* the item
C14_Witness ==
    /\ pc = "stopped"
    /\ fault = "CancelledError"
    /\ item # <<>>
    /\ log = <<"WORKER_STOPPED">>

\* the errors the general handler catches
CaughtFaults == ItemFaults \cup {"StoreError"}

NoBlpop(os) == \A i \in 1..Len(os) : os[i].op # "blpop"

\* C15: the step that catches an error starts the delay and issues no pop;
\* the delay is started by a caught error only; while it lasts no pop is
\* issued, and when it is over the next pop is (one delay per error); an
\* iteration that ends without error (the callback returned, the pop came
\* back empty) issues the next pop in the same step.
C15_OneDelayPerError ==
    [][ /\ (pc \in {"waiting", "callback"} /\ fault' \in CaughtFaults)
            => (pc' = "sleeping" /\ NoBlpop(ops'))
        /\ (pc' = "sleeping" /\ pc # "sleeping")
            => (pc \in {"waiting", "callback"} /\ fault' \in CaughtFaults)
        /\ (pc = "sleeping" /\ pc' = "sleeping") => NoBlpop(ops')
        /\ (pc = "sleeping" /\ pc' # "sleeping")
            => \/ pc' = "waiting" /\ ops' = <<BlpopOp>> /\ fault' = ""
               \/ pc' = "raised" /\ NoBlpop(ops')
        /\ (pc = "callback" /\ pc' \notin {"callback", "sleeping", "stopped"})
            => (pc' = "waiting" /\ ops' = <<BlpopOp>>)
        /\ (pc = "waiting" /\ pc' = "waiting" /\ log' = <<"TASK_RECEIVED">>)
            => ops' = <<BlpopOp>>
        /\ ~NoBlpop(ops') => (pc' = "waiting" /\ ops' = <<BlpopOp>>)
      ]_vars

\* the decode error has been caught: the delay runs and no pop is out
C15_Witness ==
    /\ pc = "sleeping"
    /\ fault = "ValueError"
    /\ ops = <<>>
    /\ popIssued

\* the blpop of this instance has returned (get_task_from_queue logged it)
\* and no list has lost a value: what it returned is falsy
PopCameBackEmpty ==
    /\ pc = "waiting"
    /\ log' # <<>>
    /\ log'[1] = "TASK_RECEIVED"
    /\ store' = store

\* C16: when the blpop returns a falsy value nothing is done with it: no
\* decode (no DATA_RECEIVED), no callback, no error log, no sleep; the step
\* issues the next blpop.
C16_EmptyPopIsNoOp ==
    [][ PopCameBackEmpty
            => /\ pc' = "waiting"
               /\ ops' = <<BlpopOp>>
               /\ log' = <<"TASK_RECEIVED">>
               /\ fault' = ""
               /\ exc' = ""
               /\ item' = item
               /\ cbArgs' = cbArgs
               /\ pending' = pending
      ]_vars

\* the empty pop and the pop that follows it, on lists that hold nothing
C16_Witness ==
    /\ pc = "waiting"
    /\ log = <<"TASK_RECEIVED">>
    /\ ops = <<BlpopOp>>
    /\ StoreSize(store) = 0
    /\ calls = 0

\* the blpop of this instance, of the second instance, has returned a value
WorkerPopped ==
    /\ pc = "waiting"
    /\ log' # <<>>
    /\ log'[1] = "TASK_RECEIVED"
    /\ store' # store

PeerPopped == peer.pc = "waiting" /\ peer'.pc = "callback"

\* the head of list k is taken off it, the rest of the store stays
TakenFrom(k) == store[k] # <<>> /\ store' = [store EXCEPT ![k] = Tail(@)]

\* C17: with two instances popping from the same lists, a value leaves the
\* store in the step that hands it to an instance and no step hands a value
\* to both: each value pushed goes to one instance at most, and an instance
\* calls its callback only for a value its own pop took.
C17_OneInstancePerValue ==
    [][ /\ ~(WorkerPopped /\ PeerPopped)
        /\ PeerPopped
            => \E k \in StoreKeys : TakenFrom(k) /\ peer'.item = <<k, Head(store[k])>>
        /\ WorkerPopped
            => \E k \in StoreKeys :
                    /\ TakenFrom(k)
                    /\ pc' = "callback" => item' = <<k, Head(store[k])>>
        /\ StoreSize(store') < StoreSize(store)
            => /\ WorkerPopped \/ PeerPopped
               /\ StoreSize(store') = StoreSize(store) - 1
        /\ (pc' = "callback" /\ pc # "callback") => WorkerPopped
        /\ (peer'.item # <<>> /\ peer'.item # peer.item) => PeerPopped
      ]_vars

\* both instances are in their callbacks, each with one of the two values
\* that were pushed
C17_Witness ==
    /\ pc = "callback"
    /\ peer.pc = "callback"
    /\ item # <<>>
    /\ peer.item # <<>>
    /\ StoreSize(store) = 0
    /\ pending = <<>>

\* the values on the lists that a call of set_task_in_queue put there
OwnValues ==
    UNION {{store[k][j] : j \in {n \in 1..Len(store[k]) : store[k][n].src # <<>>}} :
           k \in StoreKeys}

\* C18: however the calls of set_task_in_queue interleave at their lpush,
\* the envelope of each, in flight or on a list, has one key, the id that
\* call was given or generated, whatever self.task_id has become since.
C18_EnvelopeKeepsOwnId ==
    /\ \A i \in 1..Len(pending) :
            /\ SingleKey(pending[i].text)
            /\ OnlyKey(pending[i].text) = pending[i].src[1]
    /\ \A v \in OwnValues :
            /\ SingleKey(v.text)
            /\ OnlyKey(v.text) = v.src[1]

\* two calls are in flight: the second has overwritten self.task_id and the
\* envelope of the first still has the id of the first
C18_Witness ==
    /\ Len(pending) = 2
    /\ pending[2].src[1] = task_id
    /\ pending[1].src[1] # task_id
    /\ OnlyKey(pending[1].text) = pending[1].src[1]

\* C19: when the blpop itself raises an error that is no cancellation, run
\* goes on: the error is logged as a processing error (nothing was
\* received, nothing is decoded), no callback is called, the delay runs,
\* and from the delay the loop issues the blpop again (only a cancellation
\* during the delay keeps it from that).
C19_PopFailureContained ==
    [][ /\ (pc = "waiting" /\ fault' = "StoreError")
            => /\ pc' = "sleeping"
               /\ log' = <<"PROCESSING_ERROR">>
               /\ exc' = ""
               /\ store' = store
               /\ item' = <<>>
               /\ cbArgs' = <<>>
               /\ NoBlpop(ops')
        /\ (pc = "sleeping" /\ fault = "StoreError" /\ pc' # "sleeping")
            => \/ pc' = "waiting" /\ ops' = <<BlpopOp>> /\ exc' = ""
               \/ pc' = "raised" /\ exc' = "CancelledError"
      ]_vars

\* the blpop has failed while a value was on a list: the value is still
\* there and the delay runs
C19_Witness ==
    /\ pc = "sleeping"
    /\ fault = "StoreError"
    /\ log = <<"PROCESSING_ERROR">>
    /\ StoreSize(store) = 1

\* C20: a list of the store is consumed newest first: a value that is
\* pushed becomes the head of its list, before all the values that are
\* there, and a pop that takes from the list takes its head; so of two
\* values on one list the one pushed later is handed to the callback first.
C20_NewestFirst ==
    [][ \A k \in StoreKeys :
            /\ Len(store'[k]) > Len(store[k]) => Tail(store'[k]) = store[k]
            /\ Len(store'[k]) < Len(store[k])
                => /\ store'[k] = Tail(store[k])
                   /\ (pc = "waiting" /\ pc' = "callback")
                        => item' = <<k, Head(store[k])>>
      ]_vars

\* the callback has the value set_task_in_queue pushed last to a list that
\* still holds an older one
C20_Witness ==
    /\ pc = "callback"
    /\ item[2].src # <<>>
    /\ store[item[1]] # <<>>
    /\ calls = 2
    /\ pending = <<>>

====
